---- MODULE Spec2Model ----
(***************************************************************************)
(* Model of the decap_oauth repository: an OAuth2 popup relay with two     *)
(* HTTP handlers (/auth and /callback), the start-up check of the binary   *)
(* and the script of the rendered messaging page.                          *)
(*                                                                         *)
(* The repository holds two crates with the same two routes:               *)
(*   "decap"  : src/src/lib.rs + src/src/bin/decap_oauth.rs (decap_oauth)  *)
(*   "github" : src/lib/src/lib.rs + src/bin/src/main.rs (github only)     *)
(* The variable `crate` says which of the two is running.                  *)
(*                                                                         *)
(* A text (Rust String, header value, response body) is a sequence of      *)
(* tokens.  A token is a TLA+ string: a single character for the values    *)
(* that come from the environment, the request or the provider, and a      *)
(* whole fragment for the literal pieces of the format strings of the      *)
(* code.  format!/concatenation is \o.                                     *)
(***************************************************************************)
EXTENDS Integers, Sequences, FiniteSets, TLC

VARIABLES
    crate,    \* which of the two crates runs: "decap" or "github"
    env,      \* the environment variables of the process
    pc,       \* where main is: "start", "checked", "listening" or an exit
    last,     \* the request answered last with its response; <<>> before
    pending,  \* the /callback requests waiting for the token exchange
    page      \* the popup showing the page of the last response

vars == <<crate, env, pc, last, pending, page>>

(***************************************************************************)
(* Bounds                                                                  *)
(***************************************************************************)
\* number of /callback requests that may wait on the token exchange at once
MaxInflight == 1
\* number of `message` events delivered to one rendered page
MaxEvents == 2

(***************************************************************************)
(* Texts                                                                   *)
(***************************************************************************)
\* an optional value that is absent: None, Err(VarError), a missing header
Absent == <<"<absent>">>

\* s occurs in t as a contiguous run of tokens (str::contains)
Contains(t, s) ==
    \E i \in 0..(Len(t) - Len(s)) :
        \A j \in 1..Len(s) : t[i + j] = s[j]

RECURSIVE Concat(_)
\* the texts of a sequence joined together
Concat(ts) == IF ts = <<>> THEN <<>> ELSE Head(ts) \o Concat(Tail(ts))

(***************************************************************************)
(* Program constants                                                       *)
(***************************************************************************)
\* "https://github.com"; the scheme is one token, the rest one per character
OAUTH_HOSTNAME == <<"https://", "g", "i", "t", "h", "u", "b", ".", "c", "o", "m">>
\* "/login/oauth/access_token"
OAUTH_TOKEN_PATH == <<"/", "login/oauth/access_token">>
\* "/login/oauth/authorize"
OAUTH_AUTHORIZE_PATH == <<"/", "login/oauth/authorize">>
\* "github"
OAUTH_PROVIDER == <<"g", "i", "t", "h", "u", "b">>
\* "repo"
OAUTH_SCOPES == <<"r", "e", "p", "o">>
\* the same constants of the github-only crate
TOKEN_HOST == <<"https://", "g", "i", "t", "h", "u", "b", ".", "c", "o", "m">>
TOKEN_PATH == <<"/", "login/oauth/access_token">>
AUTH_PATH == <<"/", "login/oauth/authorize">>

(***************************************************************************)
(* Input values                                                            *)
(***************************************************************************)
gitlab == <<"g", "i", "t", "l", "a", "b">>
\* a provider value with a character that {:?} escapes:  g"b
quoted == <<"g", "\"", "b">>
\* the client id and the client secret of the installation
theClientId == <<"i", "d", "1">>
theSecret == <<"s", "3", "k">>
\* "example.com", the allowed origin
exampleCom == <<"e", "x", "a", "m", "p", "l", "e", ".", "c", "o", "m">>
\* OAUTH_HOSTNAME of a gitlab installation, and one without a scheme
gitlabHost == <<"https://", "g", "i", "t", "l", "a", "b", ".", "c", "o", "m">>
noSchemeHost == <<"g", "i", "t", "l", "a", "b", ".", "c", "o", "m">>
gitlabTokenPath == <<"/", "oauth/token">>
gitlabAuthorizePath == <<"/", "oauth/authorize">>
apiScope == <<"a", "p", "i">>

\* the optional settings of an installation: all unset, explicit github,
\* gitlab as in the crate documentation, gitlab with a hostname that is not
\* an absolute URL, and only the default scope changed
\* the numbers of worker threads of the runtime
WorkerThreads == {1, 2}

Profiles ==
    { [provider |-> Absent, hostname |-> Absent, token_path |-> Absent,
       authorize_path |-> Absent, scopes |-> Absent],
      [provider |-> OAUTH_PROVIDER, hostname |-> Absent, token_path |-> Absent,
       authorize_path |-> Absent, scopes |-> Absent],
      [provider |-> gitlab, hostname |-> gitlabHost, token_path |-> gitlabTokenPath,
       authorize_path |-> gitlabAuthorizePath, scopes |-> apiScope],
      [provider |-> gitlab, hostname |-> noSchemeHost, token_path |-> gitlabTokenPath,
       authorize_path |-> gitlabAuthorizePath, scopes |-> Absent],
      [provider |-> Absent, hostname |-> Absent, token_path |-> Absent,
       authorize_path |-> Absent, scopes |-> apiScope] }

\* the environments a process may be started in.  The github-only crate
\* has no optional settings: its variables are CLIENT_ID, SECRET and ORIGIN.
\* workers is the number of worker threads of the runtime #[tokio::main]
\* starts: the number of cores, or TOKIO_WORKER_THREADS.  The single-worker
\* machine is enumerated for the default profile only.
Environments(c) ==
    { [client_id |-> x[1], secret |-> x[2], origins |-> x[3],
       provider |-> x[4].provider, hostname |-> x[4].hostname,
       token_path |-> x[4].token_path,
       authorize_path |-> x[4].authorize_path,
       scopes |-> x[4].scopes, workers |-> x[5]] :
        x \in { y \in {Absent, <<>>, theClientId}
                        \X {Absent, <<>>, theSecret}
                        \X {Absent, exampleCom}
                        \X (IF c = "decap" THEN Profiles
                            ELSE {q \in Profiles : q.provider = Absent
                                                    /\ q.scopes = Absent})
                        \X WorkerThreads :
                   y[5] = 1 =>
                       /\ y[1] = theClientId /\ y[2] = theSecret
                       /\ y[3] = exampleCom
                       /\ y[4].provider = Absent /\ y[4].scopes = Absent } }

(***************************************************************************)
(* Environment access                                                      *)
(***************************************************************************)
\* env::var(var) is Ok
IsSet(v) == v # Absent

\* get_var panics when the variable is undefined
GetVarPanics(v) == ~IsSet(v)

\* env::var(var).unwrap_or(default)
get_var_or(v, default) == IF IsSet(v) THEN v ELSE default

(***************************************************************************)
(* Conversions of the libraries the handlers call                          *)
(***************************************************************************)
\* the character U+0060 of the format strings
Backtick == "<backtick>"

\* a byte of a header value that is not visible ASCII
OpaqueByte == "0xFF"

\* HeaderValue::to_str is Ok: every byte is visible ASCII
ToStrOk(h) == \A i \in 1..Len(h) : h[i] # OpaqueByte

\* the tokens of t before the first token of stops
RECURSIVE TakeUntil(_, _)
TakeUntil(t, stops) ==
    IF t = <<>> \/ Head(t) \in stops THEN <<>>
    ELSE <<Head(t)>> \o TakeUntil(Tail(t), stops)

\* Url::parse is Ok: an absolute URL with a scheme whose host has no
\* forbidden code point (AuthUrl::new, TokenUrl::new, RedirectUrl::new)
UrlParses(t) ==
    /\ t # <<>>
    /\ Head(t) = "https://"
    /\ LET host == TakeUntil(Tail(t), {"/", "?", "#"})
       IN  /\ host # <<>>
           /\ \A i \in 1..Len(host) : host[i] \notin {" ", OpaqueByte}

\* form_urlencoded::byte_serialize of one token: letters, digits and *-._
\* are kept, a space becomes +, every other byte becomes %XX
EncodeToken(c) ==
    CASE c = "https://" -> "https%3A%2F%2F"
      [] c = ":" -> "%3A"
      [] c = "/" -> "%2F"
      [] c = "?" -> "%3F"
      [] c = "=" -> "%3D"
      [] c = "&" -> "%26"
      [] c = "\"" -> "%22"
      [] c = " " -> "+"
      [] OTHER -> c

\* form_urlencoded::byte_serialize of a text
UrlEncode(t) == [i \in 1..Len(t) |-> EncodeToken(t[i])]

\* <str as Debug>::fmt of one character: " and \ get a backslash
EscapeToken(c) ==
    CASE c = "\"" -> <<"\\", "\"">>
      [] c = "\\" -> <<"\\", "\\">>
      [] OTHER -> <<c>>

\* format!("{:?}", s) of a string: quoted and escaped
DebugStr(t) ==
    <<"\"">> \o Concat([i \in 1..Len(t) |-> EscapeToken(t[i])]) \o <<"\"">>

\* <u8 as Debug>::fmt: the decimal value of the byte
DebugByte(c) ==
    CASE c = "t" -> "116"
      [] c = "1" -> "49"
      [] c = "2" -> "50"
      [] c = "s" -> "115"
      [] c = "3" -> "51"
      [] c = "k" -> "107"
      [] OTHER -> "<decimal bytes>"

\* format!("{:?}", v) of a Vec<u8>: the list of the decimal values
DebugBytes(t) == <<"[">> \o [i \in 1..Len(t) |-> DebugByte(t[i])] \o <<"]">>

(***************************************************************************)
(* Responses                                                               *)
(***************************************************************************)
\* no script: the response is not a rendered page
NoScript ==
    [rendered |-> FALSE, checks |-> FALSE, origins |-> <<>>,
     message |-> <<>>, handshake |-> <<>>]

\* a response with a plain-text body; calls counts the outbound requests
\* made while it was produced, log is what was written to stderr
Plain(status, body, log, calls) ==
    [status |-> status, body |-> body, location |-> Absent,
     log |-> log, calls |-> calls, script |-> NoScript]

\* (StatusCode::BAD_REQUEST, body).into_response()
BadRequest(body) == Plain("400", body, <<>>, 0)

\* the handler panics: the task is dropped, no response is written and the
\* panic message goes to stderr
Panic(msg, calls) == Plain("panic", <<>>, msg, calls)

\* Redirect::temporary(uri): 307 Temporary Redirect
RedirectTemporary(uri) ==
    [status |-> "307", body |-> <<>>, location |-> uri, log |-> <<>>,
     calls |-> 0, script |-> NoScript]

\* Redirect::to(uri).into_response(): axum answers 303 See Other
RedirectTo(uri) ==
    [status |-> "303", body |-> <<>>, location |-> uri, log |-> <<>>,
     calls |-> 0, script |-> NoScript]

(***************************************************************************)
(* Provider client builder                                                 *)
(***************************************************************************)
\* the result of a builder that panicked
NoClient(msg) ==
    [panic |-> TRUE, msg |-> msg, client_id |-> Absent, secret |-> Absent,
     auth_url |-> Absent, token_url |-> Absent, redirect_uri |-> Absent]

\* decap crate: create_client(redirect_url)
create_client(e, redirect_url) ==
    IF GetVarPanics(e.client_id)
    THEN NoClient(<<"OAUTH_CLIENT_ID environment variable should be defined">>)
    ELSE IF GetVarPanics(e.secret)
    THEN NoClient(<<"OAUTH_SECRET environment variable should be defined">>)
    ELSE
      LET hostname == get_var_or(e.hostname, OAUTH_HOSTNAME)
          token_path == get_var_or(e.token_path, OAUTH_TOKEN_PATH)
          auth_path == get_var_or(e.authorize_path, OAUTH_AUTHORIZE_PATH)
      IN  IF ~UrlParses(hostname \o auth_path)
          THEN NoClient(<<"Auth URL should be a valid URL">>)
          ELSE IF ~UrlParses(hostname \o token_path)
          THEN NoClient(<<"Token URL should be a valid URL">>)
          ELSE IF ~UrlParses(redirect_url)
          THEN NoClient(<<"Invalid redirect URL">>)
          ELSE [panic |-> FALSE, msg |-> <<>>,
                client_id |-> e.client_id, secret |-> e.secret,
                auth_url |-> hostname \o auth_path,
                token_url |-> hostname \o token_path,
                redirect_uri |-> redirect_url]

\* github crate: create_client(), with no redirect URI
github_create_client(e) ==
    IF GetVarPanics(e.client_id)
    THEN NoClient(<<"CLIENT_ID env variable should be defined">>)
    ELSE IF GetVarPanics(e.secret)
    THEN NoClient(<<"SECRET env variable should be defined">>)
    ELSE IF ~UrlParses(TOKEN_HOST \o AUTH_PATH)
    THEN NoClient(<<"Auth URL should be a valid URL">>)
    ELSE IF ~UrlParses(TOKEN_HOST \o TOKEN_PATH)
    THEN NoClient(<<"Token URL should be a valid URL">>)
    ELSE [panic |-> FALSE, msg |-> <<>>,
          client_id |-> e.client_id, secret |-> e.secret,
          auth_url |-> TOKEN_HOST \o AUTH_PATH,
          token_url |-> TOKEN_HOST \o TOKEN_PATH,
          redirect_uri |-> Absent]

\* format!("https://{}/callback?provider={}", host, provider)
RedirectUrlFor(host, provider) ==
    <<"https://">> \o host \o <<"/", "callback", "?", "provider", "=">> \o provider

\* the authorize URL with the scope appended as it came
AuthorizeUrl_raw_scope(client, scope, st) ==
    client.auth_url
      \o <<"?", "response_type", "=", "code">>
      \o <<"&", "client_id", "=">> \o UrlEncode(client.client_id)
      \o <<"&", "state", "=">> \o UrlEncode(st)
      \o (IF client.redirect_uri = Absent THEN <<>>
          ELSE <<"&", "redirect_uri", "=">> \o UrlEncode(client.redirect_uri))
      \o <<"&", "scope", "=">> \o scope

\* client.authorize_url(CsrfToken::new_random).add_scope(scope).url():
\* the authorize URL with the query pairs response_type, client_id, state,
\* redirect_uri and scope, form-urlencoded
AuthorizeUrl(client, scope, st) ==
    client.auth_url
      \o <<"?", "response_type", "=", "code">>
      \o <<"&", "client_id", "=">> \o UrlEncode(client.client_id)
      \o <<"&", "state", "=">> \o UrlEncode(st)
      \o (IF client.redirect_uri = Absent THEN <<>>
          ELSE <<"&", "redirect_uri", "=">> \o UrlEncode(client.redirect_uri))
      \o <<"&", "scope", "=">> \o UrlEncode(scope)

(***************************************************************************)
(* The auth route                                                          *)
(***************************************************************************)
\* auth with the missing provider replaced by the expected provider
auth_default_provider(e, req, st) ==
    LET expected_provider == get_var_or(e.provider, OAUTH_PROVIDER)
        provider == IF req.provider # Absent THEN req.provider ELSE expected_provider
        scope == IF req.scope # Absent THEN req.scope
                 ELSE get_var_or(e.scopes, OAUTH_SCOPES)
        redirect_url == RedirectUrlFor(req.host, provider)
        client == create_client(e, redirect_url)
    IN  IF provider # expected_provider
        THEN BadRequest(<<"Unexpected provider ", Backtick>> \o provider \o <<Backtick>>)
        ELSE IF req.host = Absent
        THEN BadRequest(<<"No host header">>)
        ELSE IF ~ToStrOk(req.host)
        THEN Panic(<<"called Result::unwrap() on an Err value: ToStrError">>, 0)
        ELSE IF client.panic
        THEN Panic(client.msg, 0)
        ELSE RedirectTo(AuthorizeUrl(client, scope, st))

\* auth with the provider comparison left out
auth_any_provider(e, req, st) ==
    LET provider == IF req.provider # Absent THEN req.provider ELSE e.provider
        scope == IF req.scope # Absent THEN req.scope
                 ELSE get_var_or(e.scopes, OAUTH_SCOPES)
        redirect_url == RedirectUrlFor(req.host, provider)
        client == create_client(e, redirect_url)
    IN  IF provider = Absent
        THEN BadRequest(<<"No provider specified">>)
        ELSE IF req.host = Absent
        THEN BadRequest(<<"No host header">>)
        ELSE IF ~ToStrOk(req.host)
        THEN Panic(<<"called Result::unwrap() on an Err value: ToStrError">>, 0)
        ELSE IF client.panic
        THEN Panic(client.msg, 0)
        ELSE RedirectTo(AuthorizeUrl(client, scope, st))

\* auth with the Host header looked at before the provider
auth_host_first(e, req, st) ==
    LET expected_provider == get_var_or(e.provider, OAUTH_PROVIDER)
        provider == IF req.provider # Absent THEN req.provider ELSE e.provider
        scope == IF req.scope # Absent THEN req.scope
                 ELSE get_var_or(e.scopes, OAUTH_SCOPES)
        redirect_url == RedirectUrlFor(req.host, provider)
        client == create_client(e, redirect_url)
    IN  IF req.host = Absent
        THEN BadRequest(<<"No host header">>)
        ELSE IF provider = Absent
        THEN BadRequest(<<"No provider specified">>)
        ELSE IF provider # expected_provider
        THEN BadRequest(<<"Unexpected provider ", Backtick>> \o provider \o <<Backtick>>)
        ELSE IF ~ToStrOk(req.host)
        THEN Panic(<<"called Result::unwrap() on an Err value: ToStrError">>, 0)
        ELSE IF client.panic
        THEN Panic(client.msg, 0)
        ELSE RedirectTo(AuthorizeUrl(client, scope, st))

\* decap crate: auth(params, headers); st is the random CSRF token
auth(e, req, st) ==
    LET expected_provider == get_var_or(e.provider, OAUTH_PROVIDER)
        provider == IF req.provider # Absent THEN req.provider ELSE e.provider
        scope == IF req.scope # Absent THEN req.scope
                 ELSE get_var_or(e.scopes, OAUTH_SCOPES)
        redirect_url == RedirectUrlFor(req.host, provider)
        client == create_client(e, redirect_url)
    IN  IF provider = Absent
        THEN BadRequest(<<"No provider specified">>)
        ELSE IF provider # expected_provider
        THEN BadRequest(<<"Unexpected provider ", Backtick>> \o provider \o <<Backtick>>)
        ELSE IF req.host = Absent
        THEN BadRequest(<<"No host header">>)
        ELSE IF ~ToStrOk(req.host)
        THEN Panic(<<"called Result::unwrap() on an Err value: ToStrError">>, 0)
        ELSE IF client.panic
        THEN Panic(client.msg, 0)
        ELSE RedirectTo(AuthorizeUrl(client, scope, st))

\* github crate: auth(params, headers)
github_auth(e, req, st) ==
    LET provider == req.provider
        scope == IF req.scope # Absent THEN req.scope ELSE <<"r", "e", "p", "o">>
        redirect_url == RedirectUrlFor(req.host, provider)
        built == github_create_client(e)
        client == [built EXCEPT !.redirect_uri = redirect_url]
    IN  IF provider = Absent
        THEN BadRequest(<<"No provider specified">>)
        ELSE IF provider # <<"g", "i", "t", "h", "u", "b">>
        THEN BadRequest(<<"Invalid provider ">> \o DebugStr(provider))
        ELSE IF req.host = Absent
        THEN BadRequest(<<"No host header">>)
        ELSE IF ~ToStrOk(req.host)
        THEN Panic(<<"called Result::unwrap() on an Err value: ToStrError">>, 0)
        ELSE IF built.panic
        THEN Panic(built.msg, 0)
        ELSE IF ~UrlParses(redirect_url)
        THEN Panic(<<"Invalid redirect URL">>, 0)
        ELSE RedirectTo(AuthorizeUrl(client, scope, st))

(***************************************************************************)
(* The token exchange                                                      *)
(***************************************************************************)
tok1 == <<"t", "1">>
tok2 == <<"t", "2">>

\* what the provider's token endpoint may answer to one exchange: a token
\* response, an OAuth error response (a non-2xx status such as 401), no
\* answer at all (network error), or a body that is not a token response
\* (here one that carries a token but no token_type)
Replies ==
    { [kind |-> "token", text |-> tok1],
      [kind |-> "token", text |-> tok2],
      [kind |-> "error", text |-> <<"bad_verification_code">>],
      [kind |-> "network", text |-> <<>>],
      [kind |-> "malformed", text |-> <<"{", "\"access_token\":\"">> \o tok1 \o <<"\"", "}">>] }

\* client.exchange_code(code): the POST to the token endpoint, with the
\* client credentials, the code and the redirect URI of the client
ExchangeRequest(client, code) ==
    [url |-> client.token_url, client_id |-> client.client_id,
     client_secret |-> client.secret, grant_type |-> <<"authorization_code">>,
     code |-> code, redirect_uri |-> client.redirect_uri]

\* e.to_string() of the RequestTokenError the exchange ended with
ErrorDisplay(reply) ==
    CASE reply.kind = "error" -> <<"Server returned error response">>
      [] reply.kind = "network" -> <<"Request failed">>
      [] reply.kind = "malformed" -> <<"Failed to parse server response">>

\* format!("{:?}", e) of the RequestTokenError
ErrorDebug(reply) ==
    CASE reply.kind = "error" ->
            <<"ServerResponse(StandardErrorResponse { error: ">>
               \o reply.text \o <<" })">>
      [] reply.kind = "network" -> <<"Request(reqwest::Error { kind: Request })">>
      [] reply.kind = "malformed" ->
            <<"Parse(Error { path: ., original: missing field }, ">>
               \o DebugBytes(reply.text) \o <<")">>

(***************************************************************************)
(* The messaging page                                                      *)
(***************************************************************************)
\* 'authorization:{}:{}:{{"token":"{}","provider":"{}"}}'
AuthorizationMessage(provider, status, token) ==
    <<"authorization:">> \o provider \o <<":">> \o status
      \o <<":", "{", "\"token\":\"">> \o token
      \o <<"\"", ",", "\"provider\":\"">> \o provider \o <<"\"", "}">>

\* 'authorizing:{}'
HandshakeMessage(provider) == <<"authorizing:">> \o provider

\* decap crate: the document login_response formats
PageHtml(origins, provider, status, token) ==
    <<"<script> const receiveMessage = (e) => { let matches = false; for(const origin of '">>
      \o origins
      \o <<"'.split(',')) { if (e.origin.match(origin)) { matches = true; break; } } if (!matches) { return; } window.opener.postMessage( '">>
      \o AuthorizationMessage(provider, status, token)
      \o <<"', e.origin ); window.removeEventListener('message', receiveMessage, false); } window.addEventListener('message', receiveMessage, false); window.opener.postMessage('">>
      \o HandshakeMessage(provider)
      \o <<"', '*'); </script>">>

\* github crate: the document login_response formats
GithubPageHtml(provider, status, token) ==
    <<"<script> const receiveMessage = (message) => { window.opener.postMessage( '">>
      \o AuthorizationMessage(provider, status, token)
      \o <<"', message.origin ); window.removeEventListener(\"message\", receiveMessage, false); } window.addEventListener(\"message\", receiveMessage, false); window.opener.postMessage(\"">>
      \o HandshakeMessage(provider)
      \o <<"\", \"*\"); </script>">>

\* (StatusCode::OK, Html(..)).into_response(); script is what the document's
\* script does in the browser
Page(html, script, calls) ==
    [status |-> "200", body |-> html, location |-> Absent, log |-> <<>>,
     calls |-> calls, script |-> script]

\* decap crate: login_response(provider, status, token)
login_response(e, provider, status, token, calls) ==
    IF GetVarPanics(e.origins)
    THEN Panic(<<"OAUTH_ORIGINS environment variable should be defined">>, calls)
    ELSE Page(PageHtml(e.origins, provider, status, token),
              [rendered |-> TRUE, checks |-> TRUE, origins |-> e.origins,
               message |-> AuthorizationMessage(provider, status, token),
               handshake |-> HandshakeMessage(provider)],
              calls)

\* github crate: login_response(provider, status, token)
github_login_response(provider, status, token, calls) ==
    Page(GithubPageHtml(provider, status, token),
         [rendered |-> TRUE, checks |-> FALSE, origins |-> <<>>,
          message |-> AuthorizationMessage(provider, status, token),
          handshake |-> HandshakeMessage(provider)],
         calls)

(***************************************************************************)
(* The callback route                                                      *)
(***************************************************************************)
\* the handler returned (or panicked) before the exchange
Early(resp) ==
    [early |-> TRUE, resp |-> resp, provider |-> <<>>,
     exchange |-> ExchangeRequest(NoClient(<<>>), <<>>)]

\* the handler reached client.exchange_code(code).request(http_client)
Exchanging(provider, client, code) ==
    [early |-> FALSE, resp |-> Panic(<<>>, 0), provider |-> provider,
     exchange |-> ExchangeRequest(client, code)]

\* callback verifying the state parameter against the state of the
\* authorize redirect answered before
callback_begin_checks_state(e, req) ==
    LET provider == IF req.provider # Absent THEN req.provider ELSE e.provider
        redirect_url == RedirectUrlFor(req.host, provider)
        client == create_client(e, redirect_url)
    IN  IF provider = Absent
        THEN Early(BadRequest(<<"No provider specified">>))
        ELSE IF req.code = Absent
        THEN Early(BadRequest(<<"Code is required">>))
        ELSE IF req.host = Absent
        THEN Early(BadRequest(<<"No host header">>))
        ELSE IF \/ req.state = Absent
                \/ last = <<>>
                \/ ~Contains(last[1].resp.location, <<"state", "=">> \o req.state)
        THEN Early(BadRequest(<<"Invalid state">>))
        ELSE IF ~ToStrOk(req.host)
        THEN Early(Panic(<<"called Result::unwrap() on an Err value: ToStrError">>, 0))
        ELSE IF client.panic
        THEN Early(Panic(client.msg, 0))
        ELSE Exchanging(provider, client, req.code)

\* callback with the Host header looked at before the code
callback_begin_host_first(e, req) ==
    LET provider == IF req.provider # Absent THEN req.provider ELSE e.provider
        redirect_url == RedirectUrlFor(req.host, provider)
        client == create_client(e, redirect_url)
    IN  IF provider = Absent
        THEN Early(BadRequest(<<"No provider specified">>))
        ELSE IF req.host = Absent
        THEN Early(BadRequest(<<"No host header">>))
        ELSE IF req.code = Absent
        THEN Early(BadRequest(<<"Code is required">>))
        ELSE IF ~ToStrOk(req.host)
        THEN Early(Panic(<<"called Result::unwrap() on an Err value: ToStrError">>, 0))
        ELSE IF client.panic
        THEN Early(Panic(client.msg, 0))
        ELSE Exchanging(provider, client, req.code)

\* decap crate: callback(params, headers) up to the token exchange
callback_begin(e, req) ==
    LET provider == IF req.provider # Absent THEN req.provider ELSE e.provider
        redirect_url == RedirectUrlFor(req.host, provider)
        client == create_client(e, redirect_url)
    IN  IF provider = Absent
        THEN Early(BadRequest(<<"No provider specified">>))
        ELSE IF req.code = Absent
        THEN Early(BadRequest(<<"Code is required">>))
        ELSE IF req.host = Absent
        THEN Early(BadRequest(<<"No host header">>))
        ELSE IF ~ToStrOk(req.host)
        THEN Early(Panic(<<"called Result::unwrap() on an Err value: ToStrError">>, 0))
        ELSE IF client.panic
        THEN Early(Panic(client.msg, 0))
        ELSE Exchanging(provider, client, req.code)

\* callback that renders the page with the status in place of the token
callback_end_swapped(e, provider, reply) ==
    IF reply.kind = "token"
    THEN login_response(e, provider, reply.text, <<"success">>, 1)
    ELSE Plain("500", ErrorDisplay(reply), ErrorDebug(reply), 1)

\* callback that logs the body of the provider's answer next to the error
callback_end_logs_body(e, provider, reply) ==
    IF reply.kind = "token"
    THEN login_response(e, provider, <<"success">>, reply.text, 1)
    ELSE Plain("500", ErrorDisplay(reply), ErrorDebug(reply) \o reply.text, 1)

\* decap crate: callback from the answer of the token exchange on
callback_end(e, provider, reply) ==
    IF reply.kind = "token"
    THEN login_response(e, provider, <<"success">>, reply.text, 1)
    ELSE Plain("500", ErrorDisplay(reply), ErrorDebug(reply), 1)

\* github crate: callback(params) up to the token exchange
github_callback_begin(e, req) ==
    LET provider == req.provider
        client == github_create_client(e)
    IN  IF provider = Absent
        THEN Early(BadRequest(<<"No provider specified">>))
        ELSE IF provider # <<"g", "i", "t", "h", "u", "b">>
        THEN Early(BadRequest(<<"Invalid provider ">> \o DebugStr(provider)))
        ELSE IF req.code = Absent
        THEN Early(BadRequest(<<"Code is required">>))
        ELSE IF client.panic
        THEN Early(Panic(client.msg, 0))
        ELSE Exchanging(provider, client, req.code)

\* github crate: callback from the answer of the token exchange on
github_callback_end(provider, reply) ==
    IF reply.kind = "token"
    THEN github_login_response(provider, <<"success">>, reply.text, 1)
    ELSE Plain("500", ErrorDisplay(reply), <<>>, 1)

(***************************************************************************)
(* The script of the rendered page                                         *)
(***************************************************************************)
\* 'a,b'.split(','): the pieces of t between the separators
RECURSIVE Split(_, _)
Split(t, sep) ==
    LET first == TakeUntil(t, {sep})
    IN  IF Len(first) = Len(t) THEN <<first>>
        ELSE <<first>> \o Split(SubSeq(t, Len(first) + 2, Len(t)), sep)

\* e.origin.match(origin): the string origin is compiled to a regular
\* expression and searched for anywhere in e.origin; of the metacharacters
\* only the dot (any character) occurs in the patterns of the model
RegexMatch(str, pattern) ==
    \E i \in 0..(Len(str) - Len(pattern)) :
        \A j \in 1..Len(pattern) : pattern[j] = "." \/ pattern[j] = str[i + j]

\* the loop of receiveMessage: some allowed origin matches e.origin.
\* The script of the github crate has no such loop and always goes on.
Matches(script, origin) ==
    IF script.checks
    THEN LET entries == Split(script.origins, ",")
         IN  \E k \in 1..Len(entries) : RegexMatch(origin, entries[k])
    ELSE TRUE

\* the origins `message` events come from
httpsExampleCom == <<"https://">> \o exampleCom
evilCom == <<"e", "v", "i", "l", ".", "c", "o", "m">>
httpsExampleXCom == <<"https://", "e", "x", "a", "m", "p", "l", "e", "x", "c", "o", "m">>
EventOrigins == {httpsExampleCom, evilCom, httpsExampleXCom}

\* the popup before a rendered page is loaded in it
ClosedPage == [open |-> FALSE, listener |-> FALSE, posts |-> <<>>, events |-> <<>>]

(***************************************************************************)
(* Requests                                                                *)
(***************************************************************************)
\* a Host header with a space, and one with a byte that is not ASCII
\* a second Host value that makes a valid redirect URL
otherHost == <<"o", ".", "m">>
spaceHost == <<"e", "x", " ", "m">>
opaqueHost == <<"e", "x", OpaqueByte>>
\* a scope with a character the query string has to escape
mixedScope == <<"r", "&", "w">>
code1 == <<"c", "1">>
\* the values CsrfToken::new_random may return
CsrfTokens == {<<"r", "1">>, <<"r", "2">>}

Providers == {Absent, OAUTH_PROVIDER, gitlab, quoted}
Hosts == {Absent, exampleCom, spaceHost, opaqueHost}

AuthRequests ==
    [route : {"auth"}, provider : Providers, scope : {Absent, mixedScope},
     code : {Absent}, host : Hosts, state : {Absent}]
      \cup [route : {"auth"}, provider : Providers, scope : {Absent},
            code : {Absent}, host : {otherHost}, state : {Absent}]

\* the provider sends the browser back with the state of the authorize
\* URL; a request made by hand has none
CallbackRequests ==
    [route : {"callback"}, provider : Providers, scope : {Absent},
     code : {Absent, code1}, host : Hosts, state : {Absent}]
      \cup [route : {"callback"}, provider : {OAUTH_PROVIDER}, scope : {Absent},
            code : {code1}, host : {exampleCom}, state : {<<"r", "1">>}]

\* the exchange of a response that made none
NoReply == [kind |-> "none", text |-> <<>>]

\* the record of a request that was answered; authed tells whether a GET
\* /auth was answered up to now (the handlers keep no such record)
Answered(req, resp, reply) ==
    <<[req |-> req, resp |-> resp, reply |-> reply,
       authed |-> req.route = "auth" \/ (last # <<>> /\ last[1].authed)]>>

(***************************************************************************)
(* The state machine                                                       *)
(***************************************************************************)
Init ==
    /\ crate \in {"decap", "github"}
    /\ env \in Environments(crate)
    /\ pc = "start"
    /\ last = <<>>
    /\ pending = {}
    /\ page = ClosedPage

\* main without check_var("OAUTH_SECRET")
CheckVars_no_secret ==
    /\ pc = "start"
    /\ pc' = IF IsSet(env.client_id) /\ IsSet(env.origins)
             THEN "checked" ELSE "exit_undefined_variable"
    /\ UNCHANGED <<crate, env, last, pending, page>>

\* main: check_var("OAUTH_CLIENT_ID"), check_var("OAUTH_SECRET"),
\* check_var("OAUTH_ORIGINS") (CLIENT_ID, SECRET, ORIGIN in the github crate)
CheckVars ==
    /\ pc = "start"
    /\ pc' = IF IsSet(env.client_id) /\ IsSet(env.secret) /\ IsSet(env.origins)
             THEN "checked" ELSE "exit_undefined_variable"
    /\ UNCHANGED <<crate, env, last, pending, page>>

\* main: parse_args, TcpListener::bind(..).unwrap(), axum::serve
Serve(argsOk, bindOk) ==
    /\ pc = "checked"
    /\ pc' = IF ~argsOk THEN "exit_usage"
             ELSE IF ~bindOk THEN "panic_bind" ELSE "listening"
    /\ UNCHANGED <<crate, env, last, pending, page>>

\* a worker thread of the runtime is not inside a blocking token exchange
\* and can poll the task of another connection
FreeWorker == Cardinality(pending) < env.workers

\* GET /auth
Auth(req, st) ==
    /\ pc = "listening"
    /\ FreeWorker
    /\ req \in AuthRequests
    /\ last' = Answered(req,
                        IF crate = "decap" THEN auth(env, req, st)
                        ELSE github_auth(env, req, st),
                        NoReply)
    /\ page' = ClosedPage
    /\ UNCHANGED <<crate, env, pc, pending>>

\* GET /callback, up to the response or to the start of the token exchange
Callback(req) ==
    /\ pc = "listening"
    /\ FreeWorker
    /\ req \in CallbackRequests
    /\ LET begun == IF crate = "decap" THEN callback_begin(env, req)
                    ELSE github_callback_begin(env, req)
       IN  IF begun.early
           THEN /\ last' = Answered(req, begun.resp, NoReply)
                /\ page' = ClosedPage
                /\ UNCHANGED pending
           ELSE /\ Cardinality(pending) < MaxInflight
                /\ pending' = pending \cup
                     {[req |-> req, provider |-> begun.provider,
                       exchange |-> begun.exchange]}
                /\ UNCHANGED <<last, page>>
    /\ UNCHANGED <<crate, env, pc>>

\* the token exchange of a waiting /callback request ends and the handler
\* answers the request
ExchangeReturns(p, reply) ==
    /\ p \in pending
    /\ reply \in Replies
    /\ pending' = pending \ {p}
    /\ last' = Answered(p.req,
                        IF crate = "decap" THEN callback_end(env, p.provider, reply)
                        ELSE github_callback_end(p.provider, reply),
                        reply)
    /\ page' = ClosedPage
    /\ UNCHANGED <<crate, env, pc>>

\* the script without its last statement, the handshake post
PageLoad_silent ==
    /\ last # <<>>
    /\ last[1].resp.status = "200"
    /\ ~page.open
    /\ page' = [open |-> TRUE, listener |-> TRUE, events |-> <<>>,
                posts |-> <<>>]
    /\ UNCHANGED <<crate, env, pc, last, pending>>

\* the popup loads the rendered page: the script registers receiveMessage
\* and posts the handshake to the opener with target '*'
PageLoad ==
    /\ last # <<>>
    /\ last[1].resp.status = "200"
    /\ ~page.open
    /\ page' = [open |-> TRUE, listener |-> TRUE, events |-> <<>>,
                posts |-> <<[message |-> last[1].resp.script.handshake,
                             target |-> <<"*">>]>>]
    /\ UNCHANGED <<crate, env, pc, last, pending>>

\* receiveMessage without window.removeEventListener
ReceiveMessage_stays(origin) ==
    /\ page.open
    /\ Len(page.events) < MaxEvents
    /\ origin \in EventOrigins
    /\ LET script == last[1].resp.script
       IN  page' =
             IF page.listener /\ Matches(script, origin)
             THEN [page EXCEPT !.events = Append(@, origin),
                               !.posts = Append(@, [message |-> script.message,
                                                    target |-> origin])]
             ELSE [page EXCEPT !.events = Append(@, origin)]
    /\ UNCHANGED <<crate, env, pc, last, pending>>

\* receiveMessage deregistering itself before the origin check
ReceiveMessage_one_shot(origin) ==
    /\ page.open
    /\ Len(page.events) < MaxEvents
    /\ origin \in EventOrigins
    /\ LET script == last[1].resp.script
       IN  page' =
             IF page.listener /\ Matches(script, origin)
             THEN [page EXCEPT !.events = Append(@, origin),
                               !.listener = FALSE,
                               !.posts = Append(@, [message |-> script.message,
                                                    target |-> origin])]
             ELSE [page EXCEPT !.events = Append(@, origin),
                               !.listener = FALSE]
    /\ UNCHANGED <<crate, env, pc, last, pending>>

\* receiveMessage posting the token with the wildcard target
ReceiveMessage_wildcard(origin) ==
    /\ page.open
    /\ Len(page.events) < MaxEvents
    /\ origin \in EventOrigins
    /\ LET script == last[1].resp.script
       IN  page' =
             IF page.listener /\ Matches(script, origin)
             THEN [page EXCEPT !.events = Append(@, origin),
                               !.listener = FALSE,
                               !.posts = Append(@, [message |-> script.message,
                                                    target |-> <<"*">>])]
             ELSE [page EXCEPT !.events = Append(@, origin)]
    /\ UNCHANGED <<crate, env, pc, last, pending>>

\* a `message` event from origin reaches the window: receiveMessage runs
\* if it is still registered
ReceiveMessage(origin) ==
    /\ page.open
    /\ Len(page.events) < MaxEvents
    /\ origin \in EventOrigins
    /\ LET script == last[1].resp.script
       IN  page' =
             IF page.listener /\ Matches(script, origin)
             THEN [page EXCEPT !.events = Append(@, origin),
                               !.listener = FALSE,
                               !.posts = Append(@, [message |-> script.message,
                                                    target |-> origin])]
             ELSE [page EXCEPT !.events = Append(@, origin)]
    /\ UNCHANGED <<crate, env, pc, last, pending>>

Next ==
    \/ CheckVars
    \/ \E argsOk \in BOOLEAN, bindOk \in BOOLEAN : Serve(argsOk, bindOk)
    \/ \E req \in AuthRequests, st \in CsrfTokens : Auth(req, st)
    \/ \E req \in CallbackRequests : Callback(req)
    \/ \E p \in pending, reply \in Replies : ExchangeReturns(p, reply)
    \/ PageLoad
    \/ \E origin \in EventOrigins : ReceiveMessage(origin)

Spec == Init /\ [][Next]_vars

(***************************************************************************)
(* Vocabulary of the properties                                            *)
(***************************************************************************)
\* the provider name of the installation: OAUTH_PROVIDER, else "github"
ConfiguredProvider == IF IsSet(env.provider) THEN env.provider ELSE OAUTH_PROVIDER

\* the request answered last is a GET /auth
AnsweredAuth == last # <<>> /\ last[1].req.route = "auth"

\* the request answered last is a GET /callback
AnsweredCallback == last # <<>> /\ last[1].req.route = "callback"

\* the response is 400 Bad Request with exactly this body
Is400(resp, body) == resp.status = "400" /\ resp.body = body

(***************************************************************************)
(* C1                                                                      *)
(***************************************************************************)
\* C1 (as stated): every GET /auth request without a provider parameter is
\* answered 400 Bad Request with body exactly "No provider specified",
\* whatever the other parameters, the headers and the configuration are.
C1_Original ==
    AnsweredAuth /\ last[1].req.provider = Absent
        => Is400(last[1].resp, <<"No provider specified">>)

\* C1 (amended): a GET /auth request without a provider parameter is
\* answered 400 Bad Request with body exactly "No provider specified" if and
\* only if OAUTH_PROVIDER is not set in the environment, whatever the other
\* parameters and headers are; when it is set its value is the provider.
C1_NoProvider ==
    AnsweredAuth /\ last[1].req.provider = Absent
        => (Is400(last[1].resp, <<"No provider specified">>) <=> ~IsSet(env.provider))

\* a /auth request without provider was refused in an installation that
\* sets no OAUTH_PROVIDER, although it had a scope and a Host header
C1_Witness ==
    /\ AnsweredAuth
    /\ last[1].req.provider = Absent
    /\ last[1].req.scope # Absent
    /\ last[1].req.host = exampleCom
    /\ ~IsSet(env.provider)
    /\ Is400(last[1].resp, <<"No provider specified">>)

(***************************************************************************)
(* C2                                                                      *)
(***************************************************************************)
\* the request answered last is a GET /auth with a provider parameter that
\* differs from the configured provider name
AnsweredWrongProvider ==
    /\ AnsweredAuth
    /\ last[1].req.provider # Absent
    /\ last[1].req.provider # ConfiguredProvider

\* C2 (as stated): every GET /auth request whose provider parameter is
\* present and differs from the configured provider name is answered 400
\* Bad Request with a body that contains the offending provider value, and
\* no redirect is produced.
C2_Original ==
    AnsweredWrongProvider
        => /\ last[1].resp.status = "400"
           /\ Contains(last[1].resp.body, last[1].req.provider)
           /\ last[1].resp.location = Absent

\* C2 (amended): every GET /auth request whose provider parameter is present
\* and differs from the configured provider name is answered 400 Bad Request
\* and no redirect is produced; the body contains the offending value
\* verbatim in the decap_oauth crate, and quoted and escaped as {:?} prints
\* it in the github-only crate (so verbatim there only when the value has
\* no character that {:?} escapes).
C2_WrongProvider ==
    AnsweredWrongProvider
        => /\ last[1].resp.status = "400"
           /\ last[1].resp.location = Absent
           /\ crate = "decap" => Contains(last[1].resp.body, last[1].req.provider)
           /\ crate = "github" =>
                /\ Contains(last[1].resp.body, DebugStr(last[1].req.provider))
                /\ Contains(last[1].resp.body, last[1].req.provider)
                     <=> \A i \in 1..Len(last[1].req.provider) :
                            last[1].req.provider[i] \notin {"\"", "\\"}

\* a /auth request for gitlab was refused by a github installation that
\* would otherwise have redirected it
C2_Witness ==
    /\ AnsweredWrongProvider
    /\ last[1].req.provider = gitlab
    /\ last[1].req.host = exampleCom
    /\ last[1].resp.status = "400"
    /\ Contains(last[1].resp.body, gitlab)

(***************************************************************************)
(* C3                                                                      *)
(***************************************************************************)
\* C3 (as stated): every GET /auth request with a valid provider and no Host
\* header is answered 400 Bad Request with body exactly "No host header";
\* the provider checks come first, so a request that is missing both the
\* provider and the Host header is answered with the provider error.
C3_Original ==
    /\ AnsweredAuth /\ last[1].req.provider = ConfiguredProvider
         /\ last[1].req.host = Absent
         => Is400(last[1].resp, <<"No host header">>)
    /\ AnsweredAuth /\ last[1].req.provider = Absent /\ last[1].req.host = Absent
         => Is400(last[1].resp, <<"No provider specified">>)

\* C3 (amended): every GET /auth request with a valid provider and no Host
\* header is answered 400 Bad Request with body exactly "No host header";
\* the provider checks come first, so a request with a wrong provider and no
\* Host header gets the provider error, and a request that is missing both
\* the provider and the Host header gets the provider error unless
\* OAUTH_PROVIDER is set, when the provider defaults to it and the answer is
\* "No host header".
C3_NoHost ==
    /\ AnsweredAuth /\ last[1].req.provider = ConfiguredProvider
         /\ last[1].req.host = Absent
         => Is400(last[1].resp, <<"No host header">>)
    /\ AnsweredWrongProvider /\ last[1].req.host = Absent
         => /\ last[1].resp.status = "400"
            /\ last[1].resp.body # <<"No host header">>
    /\ AnsweredAuth /\ last[1].req.provider = Absent /\ last[1].req.host = Absent
         => IF IsSet(env.provider)
            THEN Is400(last[1].resp, <<"No host header">>)
            ELSE Is400(last[1].resp, <<"No provider specified">>)

\* a /auth request with the configured provider and no Host header was
\* answered with the host error
C3_Witness ==
    /\ AnsweredAuth
    /\ last[1].req.provider = ConfiguredProvider
    /\ last[1].req.host = Absent
    /\ Is400(last[1].resp, <<"No host header">>)

(***************************************************************************)
(* C4                                                                      *)
(***************************************************************************)
\* percent-decoding of one token of a query string
DecodeToken(c) ==
    CASE c = "https%3A%2F%2F" -> "https://"
      [] c = "%3A" -> ":"
      [] c = "%2F" -> "/"
      [] c = "%3F" -> "?"
      [] c = "%3D" -> "="
      [] c = "%26" -> "&"
      [] c = "%22" -> "\""
      [] c = "+" -> " "
      [] OTHER -> c

\* the URL up to its query string
LocationBase(loc) == TakeUntil(loc, {"?"})

\* the key=value pairs of the query string of a URL
LocationPairs(loc) ==
    Split(SubSeq(loc, Len(LocationBase(loc)) + 2, Len(loc)), "&")

\* the decoded values the query string of a URL gives to a key
QueryValues(loc, key) ==
    LET pairs == LocationPairs(loc)
    IN  { [i \in 1..(Len(pairs[k]) - 2) |-> DecodeToken(pairs[k][i + 2])] :
            k \in { n \in 1..Len(pairs) :
                      /\ Len(pairs[n]) >= 2
                      /\ pairs[n][1] = key
                      /\ pairs[n][2] = "=" } }

\* the request answered last is a GET /auth with the configured provider
\* and a Host header, and it was answered with a redirect
AnsweredRedirect ==
    /\ AnsweredAuth
    /\ last[1].req.provider = ConfiguredProvider
    /\ last[1].req.host # Absent
    /\ last[1].resp.location # Absent

\* C4: for every valid GET /auth request the Location header of the redirect
\* is the configured authorize URL (hostname + authorize path) with the
\* configured client id, response_type=code, a state value, a redirect_uri
\* equal to https://{host}/callback?provider={provider}, and the effective
\* scope: the request's scope when present, else the configured default
\* (OAUTH_SCOPES, default "repo").
C4_Location ==
    AnsweredRedirect =>
        LET loc == last[1].resp.location
            req == last[1].req
        IN  /\ LocationBase(loc) =
                  (IF IsSet(env.hostname) THEN env.hostname ELSE OAUTH_HOSTNAME)
                    \o (IF IsSet(env.authorize_path) THEN env.authorize_path
                        ELSE OAUTH_AUTHORIZE_PATH)
            /\ QueryValues(loc, "client_id") = {env.client_id}
            /\ QueryValues(loc, "response_type") = {<<"code">>}
            /\ \E st \in CsrfTokens : QueryValues(loc, "state") = {st}
            /\ QueryValues(loc, "redirect_uri") =
                  {<<"https://">> \o req.host
                     \o <<"/", "callback", "?", "provider", "=">> \o req.provider}
            /\ QueryValues(loc, "scope") =
                  {IF req.scope # Absent THEN req.scope
                   ELSE IF IsSet(env.scopes) THEN env.scopes ELSE OAUTH_SCOPES}

\* a gitlab installation redirected a /auth request that named a scope of
\* its own, which needs escaping in the query string
C4_Witness ==
    /\ AnsweredRedirect
    /\ env.hostname = gitlabHost
    /\ env.scopes = apiScope
    /\ last[1].req.scope = mixedScope
    /\ last[1].req.host = exampleCom
    /\ last[1].resp.status = "303"

(***************************************************************************)
(* C5                                                                      *)
(***************************************************************************)
\* the request answered last is a GET /auth that passes validation: the
\* provider is present and is the configured one, the Host header is present
AnsweredValidAuth ==
    /\ AnsweredAuth
    /\ last[1].req.provider = ConfiguredProvider
    /\ last[1].req.host # Absent

\* the Host header is text that can be the host of a URL, and the
\* configured hostname starts an absolute URL
HandlerCanBuildUrls ==
    /\ \A i \in 1..Len(last[1].req.host) :
           last[1].req.host[i] \notin {OpaqueByte, " "}
    /\ Head(IF IsSet(env.hostname) THEN env.hostname ELSE OAUTH_HOSTNAME) = "https://"

\* C5 (as stated): every GET /auth request that passes validation is
\* answered with status 302 Found, and every /auth response is either that
\* 302 or a 400.
C5_Original ==
    /\ AnsweredValidAuth => last[1].resp.status = "302"
    /\ AnsweredAuth => last[1].resp.status \in {"302", "400"}

\* C5 (amended): every GET /auth request that passes validation is answered
\* with status 303 See Other, except that the handler panics and sends no
\* response when the Host header is not visible ASCII or the redirect,
\* authorize or token URL does not parse; every /auth response is either
\* that 303 or a 400.
C5_Status ==
    /\ AnsweredValidAuth =>
          last[1].resp.status = IF HandlerCanBuildUrls THEN "303" ELSE "panic"
    /\ AnsweredAuth => last[1].resp.status \in {"303", "400", "panic"}
    /\ AnsweredAuth /\ last[1].resp.status = "panic" =>
          last[1].resp.body = <<>> /\ last[1].resp.location = Absent

\* a valid /auth request was answered with the redirect status
C5_Witness ==
    /\ AnsweredValidAuth
    /\ HandlerCanBuildUrls
    /\ last[1].resp.status = "303"
    /\ last[1].resp.location # Absent

(***************************************************************************)
(* C6                                                                      *)
(***************************************************************************)
\* the provider step of the callback handler lets the request through: the
\* decap_oauth crate needs a provider parameter or OAUTH_PROVIDER, the
\* github-only crate needs the provider parameter to be "github"
CallbackProviderAccepted(req) ==
    IF crate = "decap"
    THEN req.provider # Absent \/ IsSet(env.provider)
    ELSE req.provider = <<"g", "i", "t", "h", "u", "b">>

\* C6 (as stated): every GET /callback request without a code parameter is
\* answered 400 Bad Request with body exactly "Code is required", whatever
\* the other parameters and headers are, and no token exchange is attempted.
C6_Original ==
    AnsweredCallback /\ last[1].req.code = Absent
        => /\ Is400(last[1].resp, <<"Code is required">>)
           /\ last[1].resp.calls = 0

\* C6 (amended): every GET /callback request without a code parameter is
\* answered 400 Bad Request and no token exchange is attempted; the body is
\* exactly "Code is required" if and only if the provider step, which comes
\* first, accepts the request, and is the provider error otherwise; the Host
\* header makes no difference.
C6_NoCode ==
    /\ AnsweredCallback /\ last[1].req.code = Absent
         => /\ last[1].resp.status = "400"
            /\ last[1].resp.calls = 0
            /\ last[1].reply = NoReply
            /\ last[1].resp.body = <<"Code is required">>
                 <=> CallbackProviderAccepted(last[1].req)
    /\ \A p \in pending : p.req.code # Absent

\* a /callback request with a provider and no code was refused although it
\* had no Host header either
C6_Witness ==
    /\ AnsweredCallback
    /\ last[1].req.code = Absent
    /\ last[1].req.provider = OAUTH_PROVIDER
    /\ last[1].req.host = Absent
    /\ Is400(last[1].resp, <<"Code is required">>)

(***************************************************************************)
(* C7                                                                      *)
(***************************************************************************)
\* the request answered last is a GET /callback with provider, code and
\* Host header whose token exchange the provider answered with a token
AnsweredWithToken ==
    /\ AnsweredCallback
    /\ last[1].req.provider # Absent
    /\ last[1].req.code # Absent
    /\ last[1].req.host # Absent
    /\ last[1].reply.kind = "token"

\* authorization:{provider}:success:{"token":"T","provider":"{provider}"}
TokenMessage(provider, token) ==
    <<"authorization:">> \o provider
      \o <<":", "success", ":", "{", "\"token\":\"">> \o token
      \o <<"\"", ",", "\"provider\":\"">> \o provider \o <<"\"", "}">>

\* C7: for every GET /callback request with provider, code and Host header
\* present whose exchange the token endpoint answers with an access token T,
\* the response is 200 OK with an HTML page whose token message is
\* authorization:{provider}:success:{"token":"T","provider":"{provider}"}:
\* it carries the token of the exchange, no other token, and the request's
\* provider.
C7_TokenPage ==
    AnsweredWithToken =>
        /\ last[1].resp.status = "200"
        /\ last[1].resp.script.rendered
        /\ Contains(last[1].resp.body,
                    TokenMessage(last[1].req.provider, last[1].reply.text))
        /\ last[1].resp.script.message =
              TokenMessage(last[1].req.provider, last[1].reply.text)
        /\ \A t \in {tok1, tok2} \ {last[1].reply.text} :
              ~Contains(last[1].resp.body, t)

\* the exchange of a /callback request for gitlab returned the second token
\* and the page was rendered
C7_Witness ==
    /\ AnsweredWithToken
    /\ last[1].req.provider = gitlab
    /\ last[1].req.host = exampleCom
    /\ last[1].reply.text = tok2
    /\ last[1].resp.status = "200"

(***************************************************************************)
(* C8                                                                      *)
(***************************************************************************)
\* the posts of the open page that carry the token
TokenPosts ==
    { i \in 1..Len(page.posts) :
        page.posts[i].message = last[1].resp.script.message }

\* an entry of the allowed origins of the installation matches the origin
AllowedOrigin(origin) ==
    LET entries == Split(env.origins, ",")
    IN  \E k \in 1..Len(entries) : RegexMatch(origin, entries[k])

\* C8: in the rendered page the token-carrying authorization: message is
\* posted in response to a message event only if the event's origin matches
\* at least one entry of the configured allowed origins: with allowed
\* origins ["example.com"] an event from evil.com never causes the token
\* message to be posted, and an event from https://example.com does.
C8_OriginCheck ==
    page.open /\ env.origins = exampleCom =>
        /\ \A i \in TokenPosts : AllowedOrigin(page.posts[i].target)
        /\ \A i \in TokenPosts : page.posts[i].target # evilCom
        /\ (\E n \in 1..Len(page.events) : page.events[n] = httpsExampleCom)
              => TokenPosts # {}

(***************************************************************************)
(* C9                                                                      *)
(***************************************************************************)
\* the request answered last is a GET /callback whose token exchange failed:
\* network error, OAuth error response, or a body that is no token response
AnsweredFailedExchange ==
    /\ AnsweredCallback
    /\ last[1].reply.kind \in {"error", "network", "malformed"}

\* the text holds the client secret or one of the access tokens.  The
\* secret of an installation may be the empty string, which every text
\* contains and which gives nothing away.
HoldsCredential(t) ==
    \/ env.secret # <<>> /\ Contains(t, env.secret)
    \/ Contains(t, tok1)
    \/ Contains(t, tok2)

PastCheck == pc \in {"checked", "listening", "exit_usage", "panic_bind"}

\* what get_var and expect print when a credential is undefined
UndefinedCredentialPanics ==
    { <<"OAUTH_CLIENT_ID environment variable should be defined">>,
      <<"OAUTH_SECRET environment variable should be defined">>,
      <<"CLIENT_ID env variable should be defined">>,
      <<"SECRET env variable should be defined">> }

\* C10 (as stated): the process never begins accepting HTTP requests unless
\* the client id and the client secret are both present and non-empty: if
\* either is missing at start-up the process exits with an error before
\* binding the listener, and a missing client id or secret is never first
\* detected while handling a request.
C10_Original ==
    /\ PastCheck =>
          /\ IsSet(env.client_id) /\ env.client_id # <<>>
          /\ IsSet(env.secret) /\ env.secret # <<>>
    /\ last # <<>> => last[1].resp.log \notin UndefinedCredentialPanics

\* C10 (amended): the process never begins accepting HTTP requests unless
\* the client id and the client secret are both defined in the environment
\* (an empty value counts as defined): if either is undefined at start-up
\* the process exits with an error before binding the listener, and an
\* undefined client id or secret is never first detected while handling a
\* request.
C10_Startup ==
    /\ PastCheck => IsSet(env.client_id) /\ IsSet(env.secret)
    /\ pc # "start" /\ ~(IsSet(env.client_id) /\ IsSet(env.secret))
          => pc = "exit_undefined_variable"
    /\ last # <<>> \/ pending # {} =>
          /\ pc = "listening"
          /\ IsSet(env.client_id) /\ IsSet(env.secret)
    /\ last # <<>> => last[1].resp.log \notin UndefinedCredentialPanics

\* a process started without its client secret has exited at the check
C10_Witness ==
    /\ pc = "exit_undefined_variable"
    /\ IsSet(env.client_id)
    /\ ~IsSet(env.secret)
    /\ IsSet(env.origins)
    /\ last = <<>>

(***************************************************************************)
(* C11                                                                     *)
(***************************************************************************)
\* the events of the open page whose origin the script lets through
AcceptedEvents ==
    { n \in 1..Len(page.events) :
        Matches(last[1].resp.script, page.events[n]) }

\* C11: at-most-once delivery: over the whole lifetime of one rendered page
\* and for any sequence of incoming message events the token-carrying
\* authorization: message is posted to the opener at most once, because the
\* listener is deregistered right after the first post and no later event
\* can trigger another post.
C11_AtMostOnce ==
    page.open =>
        /\ Cardinality(TokenPosts) <= 1
        /\ TokenPosts # {} <=> ~page.listener
        /\ TokenPosts # {} <=> AcceptedEvents # {}

\* a page received two events from an allowed origin and posted the token
\* once
C11_Witness ==
    /\ page.open
    /\ page.events = <<httpsExampleCom, httpsExampleCom>>
    /\ Cardinality(TokenPosts) = 1
    /\ ~page.listener

(***************************************************************************)
(* C12                                                                     *)
(***************************************************************************)
\* the events of the open page whose origin matches an allowed origin of
\* the installation
AllowedEvents ==
    { n \in 1..Len(page.events) : AllowedOrigin(page.events[n]) }

CallbackProvider ==
    IF last[1].req.provider = Absent THEN ConfiguredProvider
    ELSE last[1].req.provider

\* the posts of the open page that are handshakes
HandshakePosts ==
    { i \in 1..Len(page.posts) : page.posts[i].message[1] = "authorizing:" }

\* C13: in every execution of the rendered page the authorizing:{provider}
\* handshake is posted to the opener with target * exactly once, on page
\* load; it contains no token and it is posted before any token-carrying
\* authorization: message.
C13_Handshake ==
    page.open =>
        /\ Len(page.posts) >= 1
        /\ page.posts[1] = [message |-> <<"authorizing:">> \o CallbackProvider,
                            target |-> <<"*">>]
        /\ HandshakePosts = {1}
        /\ \A t \in {tok1, tok2} : ~Contains(page.posts[1].message, t)
        /\ \A i \in TokenPosts : i > 1

\* a page posted the handshake on load and the token afterwards
C13_Witness ==
    /\ page.open
    /\ Len(page.posts) = 2
    /\ HandshakePosts = {1}
    /\ TokenPosts = {2}

(***************************************************************************)
(* C14                                                                     *)
(***************************************************************************)
\* C14: the token-carrying authorization: message is always posted with its
\* target origin set to the origin of the message event that passed the
\* script's origin test, and never with target *; only the token-free
\* authorizing: handshake uses the wildcard target.
C14_Target ==
    page.open =>
        /\ \A i \in TokenPosts :
              /\ page.posts[i].target # <<"*">>
              /\ \E n \in AcceptedEvents :
                    /\ \A m \in AcceptedEvents : n <= m
                    /\ page.posts[i].target = page.events[n]
        /\ \A i \in 1..Len(page.posts) :
              page.posts[i].target = <<"*">> =>
                  /\ i \in HandshakePosts
                  /\ \A t \in {tok1, tok2} : ~Contains(page.posts[i].message, t)

\* the token went to the origin of the event and the handshake to *
C14_Witness ==
    /\ page.open
    /\ page.events = <<httpsExampleCom>>
    /\ Len(page.posts) = 2
    /\ page.posts[1].target = <<"*">>
    /\ page.posts[2].target = httpsExampleCom
    /\ Contains(page.posts[2].message, last[1].reply.text)

(***************************************************************************)
(* C15                                                                     *)
(***************************************************************************)
\* the request answered last is a GET /auth that was redirected to the
\* provider
AuthRedirected ==
    /\ AnsweredAuth
    /\ last[1].resp.status = "303"

\* the provider name the authorize handler worked with for the request
\* answered last
AuthProvider ==
    IF last[1].req.provider = Absent THEN ConfiguredProvider
    ELSE last[1].req.provider

\* C15: for the same Host header value and the same provider, the
\* redirect_uri that the callback handler sends in the token exchange is
\* identical to the redirect_uri the authorize handler put in the authorize
\* URL; if the Host header differs between the two legs the two redirect
\* URIs differ.
C15_SameRedirectUri ==
    AuthRedirected =>
        \A p \in pending :
            p.provider = AuthProvider =>
                LET sent == QueryValues(last[1].resp.location, "redirect_uri")
                IN  /\ last[1].req.host = p.req.host
                          => sent = {p.exchange.redirect_uri}
                    /\ last[1].req.host # p.req.host
                          => sent # {p.exchange.redirect_uri}

(***************************************************************************)
(* C16                                                                     *)
(***************************************************************************)
\* a GET /callback request that names a provider other than the configured
\* one
WrongProvider(req) ==
    /\ req.route = "callback"
    /\ req.provider # Absent
    /\ req.provider # ConfiguredProvider

\* C16: the callback handler applies the same provider handling as the
\* authorize handler: a GET /callback request whose provider is present but
\* differs from the configured provider name is answered with 400 Bad
\* Request before any token exchange, so the provider name embedded in a
\* rendered page is always the configured provider name.
C16_CallbackProvider ==
    /\ \A p \in pending : ~WrongProvider(p.req)
    /\ AnsweredCallback /\ WrongProvider(last[1].req) =>
          /\ last[1].resp.status = "400"
          /\ last[1].resp.calls = 0
    /\ AnsweredCallback /\ last[1].resp.script.rendered =>
          /\ last[1].resp.script.handshake =
                <<"authorizing:">> \o ConfiguredProvider
          /\ \E status \in {<<"success">>}, t \in {tok1, tok2} :
                last[1].resp.script.message =
                    AuthorizationMessage(ConfiguredProvider, status, t)

(***************************************************************************)
(* C17                                                                     *)
(***************************************************************************)
\* C17: every /auth or /callback request, for any query parameters and any
\* Host header value (including one that is not valid text or that makes
\* https://{host}/callback?provider={provider} an unparsable URL), ends with
\* an HTTP response of status 200, 302, 400 or 500; no per-request input
\* makes a handler panic, and URL or configuration construction errors never
\* surface while handling a request.  The 303 of Redirect::to is let through
\* here; it is the subject of C5.
C17_NoPanic ==
    last # <<>> =>
        last[1].resp.status \in {"200", "302", "303", "400", "500"}

(***************************************************************************)
(* C18                                                                     *)
(***************************************************************************)
\* some GET /auth request can be processed to its response
AuthStep == \E req \in AuthRequests, st \in CsrfTokens : Auth(req, st)

\* C18: with several requests in flight, a /callback request that is
\* waiting on a slow token-exchange call does not prevent any other
\* in-flight /auth or /callback request from being processed to completion,
\* even if the slow exchange never returns: while an exchange is waiting the
\* server can still process another /auth and another /callback request.
C18_NoStarvation ==
    pc = "listening" /\ Cardinality(pending) = 1 =>
        /\ ENABLED AuthStep
        /\ \E req \in CallbackRequests :
              /\ req.code = Absent
              /\ ENABLED Callback(req)

(***************************************************************************)
(* C19                                                                     *)
(***************************************************************************)
\* the status a GET /callback request ends with, from its provider, code
\* and Host header, the configuration and the provider's reply
CallbackStatus(req, reply) ==
    IF ~CallbackProviderAccepted(req) \/ req.code = Absent THEN "400"
    ELSE IF crate = "decap" /\ req.host = Absent THEN "400"
    ELSE IF crate = "decap"
            /\ \/ \E i \in 1..Len(req.host) : req.host[i] \in {OpaqueByte, " "}
               \/ Head(get_var_or(env.hostname, OAUTH_HOSTNAME)) # "https://"
    THEN "panic"
    ELSE IF reply.kind = "token" THEN "200"
    ELSE "500"

\* C19: the service keeps no state between the two legs: the response to a
\* /callback request is determined only by its provider, code and Host
\* header, the configuration and the provider's reply; it does not depend on
\* whether any /auth request was made before, on which state value /auth
\* generated, or on any state parameter in the callback.
C19_Stateless ==
    AnsweredCallback =>
        /\ last[1].resp.status = CallbackStatus(last[1].req, last[1].reply)
        /\ last[1].resp.status = "200" =>
              /\ last[1].resp.script.message =
                    AuthorizationMessage(CallbackProvider, <<"success">>,
                                         last[1].reply.text)
              /\ last[1].resp.script.handshake =
                    <<"authorizing:">> \o CallbackProvider
        /\ last[1].resp.status = "500" =>
              last[1].resp.body = ErrorDisplay(last[1].reply)

\* a callback with no prior /auth and no state ended in a 200 token page
C19_Witness ==
    /\ AnsweredCallback
    /\ ~last[1].authed
    /\ last[1].req.state = Absent
    /\ last[1].resp.status = "200"
    /\ last[1].resp.script.rendered

(***************************************************************************)
(* C20                                                                     *)
(***************************************************************************)
\* the validation steps of the callback handler let the request through
PassesValidation(req) ==
    /\ CallbackProviderAccepted(req)
    /\ req.code # Absent
    /\ crate = "decap" => req.host # Absent

\* C20: outbound calls happen only in the callback handler and only after
\* validation succeeds: an /auth request never makes a network call, a
\* /callback request answered with 400 makes none, and a /callback request
\* that passes validation makes exactly one token-exchange call, which is
\* not retried when it fails.
C20_Calls ==
    /\ AnsweredAuth => last[1].resp.calls = 0
    /\ AnsweredCallback /\ last[1].resp.status = "400" =>
          last[1].resp.calls = 0
    /\ AnsweredCallback /\ PassesValidation(last[1].req) =>
          last[1].resp.calls = 1

====
